---- MODULE Spec2Model ----
(***************************************************************************)
(* Model of the XRA1405 SPI GPIO-expander driver (XRA1405.cpp/.hpp).       *)
(*                                                                         *)
(* The driver keeps no state of its own: the state is the register file    *)
(* of each attached device, the level of each chip-select line, the SPI    *)
(* peripheral (its programmed clock, its open transaction) and, for each   *)
(* caller, the position inside the driver function it is executing.        *)
(* Every driver function is modelled statement group by statement group:   *)
(* one action per call of SPI_Read / SPI_Write it issues, and one action   *)
(* per statement of SPI_Read / SPI_Write themselves.                       *)
(***************************************************************************)
EXTENDS Integers, Sequences, FiniteSets, TLC

\* ------------------------------------------------------------------------
\* Bounds of the model
\* ------------------------------------------------------------------------

\* Number of distinct initial register files a behaviour may start from.
NumSeeds == 4

\* ------------------------------------------------------------------------
\* Program constants (XRA1405.hpp, Arduino.h)
\* ------------------------------------------------------------------------

XRA1405_SPI_CLOCK == 26000000
MinFrequency == 24000000
MaxFrequency == 26000000

XRA1405_WRITE == 127
XRA1405_READ == 128

LOW == 0
HIGH == 1

\* enum XRA1405_Register: the register address pre-shifted by one bit.
GSR1 == 0 * 2
GSR2 == 1 * 2
OCR1 == 2 * 2
OCR2 == 3 * 2
PIR1 == 4 * 2
PIR2 == 5 * 2
GCR1 == 6 * 2
GCR2 == 7 * 2
PUR1 == 8 * 2
PUR2 == 9 * 2
IER1 == 10 * 2
IER2 == 11 * 2
TSCR1 == 12 * 2
TSCR2 == 13 * 2
ISR1 == 14 * 2
ISR2 == 15 * 2
REIR1 == 16 * 2
REIR2 == 17 * 2
FEIR1 == 18 * 2
FEIR2 == 19 * 2
IFR1 == 20 * 2
IFR2 == 21 * 2

\* The 22 register addresses of the device, 0x00 .. 0x15.
RegAddrs == 0 .. 21

\* Pin modes and interrupt types, by name.
PinModes == {"OUTPUT", "INPUT", "INPUT_PULLUP"}
InterruptTypes == {"INTERRUPT_DISABLE", "INTERRUPT_RISING",
                   "INTERRUPT_FALLING", "INTERRUPT_BOTH"}

\* Logical pins of one device, host pins used as chip selects, callers.
Pins == 0 .. 15
ChipSelects == {5, 17}
Callers == {1, 2}

\* Frequencies handed to XRA1405_begin: below, at the edges of, inside and
\* above the supported range.
Frequencies == {10000000, 23999999, 24000000, 25000000, 26000000, 26000001}

\* ------------------------------------------------------------------------
\* uint8_t arithmetic
\* ------------------------------------------------------------------------

Bytes == 0 .. 255

RECURSIVE AndBits(_, _, _)
AndBits(a, b, n) ==
    IF n = 0 THEN 0
    ELSE (a % 2) * (b % 2) + 2 * AndBits(a \div 2, b \div 2, n - 1)

RECURSIVE OrBits(_, _, _)
OrBits(a, b, n) ==
    IF n = 0 THEN 0
    ELSE (IF a % 2 = 1 \/ b % 2 = 1 THEN 1 ELSE 0)
         + 2 * OrBits(a \div 2, b \div 2, n - 1)

\* a & b and a | b on 8-bit operands.
BitAnd(a, b) == AndBits(a, b, 8)
BitOr(a, b) == OrBits(a, b, 8)

\* 1 << n
Shl1(n) == 2 ^ n

\* The low 8 bits of ~(1 << n): the only bits that meet a uint8_t operand.
ClearMask(n) == 255 - Shl1(n)

\* (v >> n) & 0x01
Bit(v, n) == (v \div (2 ^ n)) % 2

\* Variants of the two bit updates with a slip in them: the mask written
\* without the register's current value, and the mask left uncomplemented.
SetBitWithoutValue(v, n) == Shl1(n)
ClearBitWithoutComplement(v, n) == BitAnd(v, Shl1(n))

\* value | (1 << pin)  and  value & ~(1 << pin)
SetBit(v, n) == BitOr(v, Shl1(n))
ClearBit(v, n) == BitAnd(v, ClearMask(n))

\* ------------------------------------------------------------------------
\* Command bytes
\* ------------------------------------------------------------------------

\* Variant of setReadMode that leaves the direction bit as it is.
setReadModeWithoutFlag(commandByte) == commandByte

\* static uint8_t setReadMode(uint8_t commandByte)
setReadMode(commandByte) == BitOr(commandByte, XRA1405_READ)

\* static uint8_t setWriteMode(uint8_t commandByte)
setWriteMode(commandByte) == BitAnd(commandByte, XRA1405_WRITE)

\* Variant of the bank selection that always takes the low bank.
SelectBankLowOnly(pin, low, high) == low

\* Variant of the bank selection that wraps the pin number around 16.
SelectBankWrapping(pin, low, high) == IF pin % 16 < 8 THEN low ELSE high

\* (pin < 8) ? low : high, the bank selection every operation starts with.
SelectBank(pin, low, high) == IF pin < 8 THEN low ELSE high

\* Fields of a command byte as the device decodes them.
IsReadCommand(commandByte) == Bit(commandByte, 7) = 1
CommandAddress(commandByte) == (commandByte \div 2) % 64

\* ------------------------------------------------------------------------
\* State
\* ------------------------------------------------------------------------

VARIABLES
    regs,        \* regs[d][a]: register a of the device on select line d
    regs0,       \* the register files before the first call
    csLine,      \* csLine[d]: level of select line d (LOW selects)
    dev,         \* dev[d]: where device d is in its two-byte frame
    spiClock,    \* clock the SPI peripheral is programmed with (0: none)
    spiOpen,     \* an SPI transaction is open (beginTransaction .. end)
    configured,  \* frequency XRA1405_begin configured (0: not begun)
    pc,          \* pc[t]: where caller t is inside a driver function
    script,      \* script[t]: the calls caller t has still to make
    plan,        \* plan[t]: the calls caller t set out to make
    call,        \* call[t]: the call caller t is in, or made last
    loc,         \* loc[t]: locals of the driver function
    xfer,        \* xfer[t]: frame of the SPI_Read / SPI_Write in progress
    result,      \* result[t]: value returned by XRA1405_digitalRead
    entry,       \* entry[t]: the register files when call[t] was entered
    txlog,       \* txlog[t]: transactions completed within call[t]
    wire         \* wire[t]: bus events of the SPI_Read / SPI_Write of t

vars == <<regs, regs0, plan, csLine, dev, spiClock, spiOpen, configured, pc,
          script, call, loc, xfer, result, entry, txlog, wire>>

\* ------------------------------------------------------------------------
\* Calls
\* ------------------------------------------------------------------------

Call(op, cs, pin, mode, value, enabled) ==
    [op |-> op, cs |-> cs, pin |-> pin, mode |-> mode, value |-> value,
     enabled |-> enabled]

NoCall == Call("none", 0, 0, "-", 0, FALSE)

BeginCalls == {Call("begin", 0, 0, "-", f, FALSE) : f \in Frequencies}

PinModeCalls ==
    {Call("pinMode", d, p, m, 0, FALSE) :
        d \in ChipSelects, p \in Pins, m \in PinModes}

DigitalWriteCalls ==
    {Call("digitalWrite", d, p, "-", v, FALSE) :
        d \in ChipSelects, p \in Pins, v \in {LOW, HIGH}}

DigitalReadCalls ==
    {Call("digitalRead", d, p, "-", 0, FALSE) : d \in ChipSelects, p \in Pins}

SetPullUpCalls ==
    {Call("setPullUp", d, p, "-", 0, e) :
        d \in ChipSelects, p \in Pins, e \in BOOLEAN}

SetInterruptCalls ==
    {Call("setInterrupt", d, p, m, 0, FALSE) :
        d \in ChipSelects, p \in Pins, m \in InterruptTypes}

ClearInterruptsCalls ==
    {Call("clearInterrupts", d, 0, "-", 0, FALSE) : d \in ChipSelects}

PinCalls ==
    PinModeCalls \cup DigitalWriteCalls \cup DigitalReadCalls
        \cup SetPullUpCalls \cup SetInterruptCalls

DeviceCalls == PinCalls \cup ClearInterruptsCalls

NoLocals == [cmd |-> 0, cmd2 |-> 0, pin |-> 0, val |-> 0, val2 |-> 0]

NoTransfer ==
    [fn |-> "none", step |-> "none", cs |-> 0, commandByte |-> 0,
     dataByte |-> 0, readValue |-> 0]

\* ------------------------------------------------------------------------
\* The device on a select line
\* ------------------------------------------------------------------------

Selected(d) == csLine[d] = LOW

RECURSIVE PinStateBits(_, _, _, _)
PinStateBits(config, output, level, n) ==
    IF n = 0 THEN 0
    ELSE (IF config % 2 = 0 THEN output % 2 ELSE level % 2)
         + 2 * PinStateBits(config \div 2, output \div 2, level \div 2, n - 1)

\* What the state register of a bank shows: the output-control level of a
\* pin configured as output, the level applied to a pin configured as input
\* (the stored state byte stands for the applied levels).
PinState(d, a) ==
    PinStateBits(regs[d][a + (GCR1 \div 2)], regs[d][a + (OCR1 \div 2)],
                 regs[d][a], 8)

\* The byte device d returns for a read of register a.
DeviceRead(d, a) ==
    IF a \in {GSR1 \div 2, GSR2 \div 2} THEN PinState(d, a) ELSE regs[d][a]

\* The byte device d drives on MISO during the next transfer.
DeviceOut(d) ==
    IF /\ dev[d].phase = "data"
       /\ IsReadCommand(dev[d].cmd)
       /\ CommandAddress(dev[d].cmd) \in RegAddrs
    THEN DeviceRead(d, CommandAddress(dev[d].cmd))
    ELSE 0

\* The bytes a transfer can return: the selected device's, and any level
\* when the line is not driven by exactly one device.
MisoValues ==
    LET sel == {d \in ChipSelects : Selected(d)}
    IN  IF Cardinality(sel) = 1 THEN {DeviceOut(d) : d \in sel} ELSE {0, 255}

\* Frame state and register file of device d after byte b is clocked.
DevAfter(d, b) ==
    IF ~Selected(d) THEN dev[d]
    ELSE CASE dev[d].phase = "command" -> [phase |-> "data", cmd |-> b]
           [] dev[d].phase = "data" -> [phase |-> "over", cmd |-> dev[d].cmd]
           [] OTHER -> dev[d]

RegsAfter(d, b) ==
    IF /\ Selected(d)
       /\ dev[d].phase = "data"
       /\ ~IsReadCommand(dev[d].cmd)
       /\ CommandAddress(dev[d].cmd) \in RegAddrs
    THEN [regs[d] EXCEPT ![CommandAddress(dev[d].cmd)] = b]
    ELSE regs[d]

\* SPI.transfer(b) as seen by the devices on the bus.
Clock(b) ==
    /\ dev' = [d \in ChipSelects |-> DevAfter(d, b)]
    /\ regs' = [d \in ChipSelects |-> RegsAfter(d, b)]

\* ------------------------------------------------------------------------
\* Initial states
\* ------------------------------------------------------------------------

\* Register a of device d in the initial register file number seed: all
\* zeros, all ones, then files in which neighbouring registers differ.
InitialByte(seed, d, a) ==
    CASE seed = 0 -> 0
      [] seed = 1 -> 255
      [] OTHER -> (85 * seed + 51 * a + d) % 256

InitialRegs(seed) ==
    [d \in ChipSelects |-> [a \in RegAddrs |-> InitialByte(seed, d, a)]]

\* The hardware and the callers before any call. The select lines idle
\* high: the driver drives a line only inside SPI_Read / SPI_Write.
InitWith(files, scripts) ==
    /\ regs \in files
    /\ regs0 = regs
    /\ csLine = [d \in ChipSelects |-> HIGH]
    /\ dev = [d \in ChipSelects |-> [phase |-> "idle", cmd |-> 0]]
    /\ spiClock = 0
    /\ spiOpen = FALSE
    /\ configured = 0
    /\ pc = [t \in Callers |-> "idle"]
    /\ script \in scripts
    /\ plan = script
    /\ call = [t \in Callers |-> NoCall]
    /\ loc = [t \in Callers |-> NoLocals]
    /\ xfer = [t \in Callers |-> NoTransfer]
    /\ result = [t \in Callers |-> 0]
    /\ entry = [t \in Callers |-> regs]
    /\ txlog = [t \in Callers |-> <<>>]
    /\ wire = [t \in Callers |-> <<>>]

SeedFiles == {InitialRegs(seed) : seed \in 0 .. NumSeeds - 1}

\* One caller: XRA1405_begin, then one call of a device operation.
OneCallScripts ==
    {[t \in Callers |-> IF t = 1 THEN <<b, c>> ELSE <<>>] :
        b \in BeginCalls, c \in DeviceCalls}

Init == InitWith(SeedFiles, OneCallScripts)

\* ------------------------------------------------------------------------
\* SPI_Read and SPI_Write, statement by statement
\* ------------------------------------------------------------------------

Event(ev, byte, level) == [ev |-> ev, byte |-> byte, sel |-> level]

\* The caller's side of a call of SPI_Read / SPI_Write.
SPI_Read(t, chipSelectPin, commandByte) ==
    xfer' = [xfer EXCEPT ![t] =
                [fn |-> "SPI_Read", step |-> "select", cs |-> chipSelectPin,
                 commandByte |-> commandByte, dataByte |-> 0, readValue |-> 0]]

SPI_Write(t, chipSelectPin, commandByte, dataByte) ==
    xfer' = [xfer EXCEPT ![t] =
                [fn |-> "SPI_Write", step |-> "select", cs |-> chipSelectPin,
                 commandByte |-> commandByte, dataByte |-> dataByte,
                 readValue |-> 0]]

Returned(t) == xfer[t].step = "return"

Goto(t, label) == pc' = [pc EXCEPT ![t] = label]

StepTo(t, step) == xfer' = [xfer EXCEPT ![t].step = step]

\* Variant of the select that drives every select line low.
SelectDeviceAllLines(t) ==
    /\ xfer[t].step = "select"
    /\ csLine' = [d \in ChipSelects |-> LOW]
    /\ dev' = [d \in ChipSelects |->
                  IF csLine[d] = HIGH
                  THEN [phase |-> "command", cmd |-> 0] ELSE dev[d]]
    /\ wire' = [wire EXCEPT ![t] = <<Event("cs_low", 0, LOW)>>]
    /\ StepTo(t, "begin")
    /\ UNCHANGED <<regs0, plan, regs, spiClock, spiOpen, configured, pc,
                   script, call, loc, result, entry, txlog>>

\* digitalWrite(chipSelectPin, LOW): the falling edge opens a frame.
SelectDevice(t) ==
    /\ xfer[t].step = "select"
    /\ csLine' = [csLine EXCEPT ![xfer[t].cs] = LOW]
    /\ dev' = [dev EXCEPT ![xfer[t].cs] =
                  IF csLine[xfer[t].cs] = HIGH
                  THEN [phase |-> "command", cmd |-> 0] ELSE @]
    /\ wire' = [wire EXCEPT ![t] = <<Event("cs_low", 0, LOW)>>]
    /\ StepTo(t, "begin")
    /\ UNCHANGED <<regs0, plan, regs, spiClock, spiOpen, configured, pc,
                   script, call, loc, result, entry, txlog>>

\* SPI.beginTransaction(SPISettings(XRA1405_SPI_CLOCK, SPI_ORDER, SPI_MODE))
BeginTransaction(t) ==
    /\ xfer[t].step = "begin"
    /\ ~spiOpen
    /\ spiOpen' = TRUE
    /\ spiClock' = XRA1405_SPI_CLOCK
    /\ wire' = [wire EXCEPT ![t] =
                   Append(@, Event("begin", 0, csLine[xfer[t].cs]))]
    /\ StepTo(t, "command")
    /\ UNCHANGED <<regs0, plan, regs, csLine, dev, configured, pc, script,
                   call, loc, result, entry, txlog>>

\* SPI.transfer(commandByte)
TransferCommand(t) ==
    /\ xfer[t].step = "command"
    /\ Clock(xfer[t].commandByte)
    /\ wire' = [wire EXCEPT ![t] =
                   Append(@, Event("transfer", xfer[t].commandByte,
                                   csLine[xfer[t].cs]))]
    /\ StepTo(t, "data")
    /\ UNCHANGED <<regs0, plan, csLine, spiClock, spiOpen, configured, pc,
                   script, call, loc, result, entry, txlog>>

\* uint8_t readValue = SPI.transfer(0x00)
SPI_Read_TransferData(t) ==
    /\ xfer[t].fn = "SPI_Read"
    /\ xfer[t].step = "data"
    /\ Clock(0)
    /\ \E v \in MisoValues :
          xfer' = [xfer EXCEPT ![t].step = "end", ![t].readValue = v]
    /\ wire' = [wire EXCEPT ![t] =
                   Append(@, Event("transfer", 0, csLine[xfer[t].cs]))]
    /\ UNCHANGED <<regs0, plan, csLine, spiClock, spiOpen, configured, pc,
                   script, call, loc, result, entry, txlog>>

\* SPI.transfer(dataByte)
SPI_Write_TransferData(t) ==
    /\ xfer[t].fn = "SPI_Write"
    /\ xfer[t].step = "data"
    /\ Clock(xfer[t].dataByte)
    /\ wire' = [wire EXCEPT ![t] =
                   Append(@, Event("transfer", xfer[t].dataByte,
                                   csLine[xfer[t].cs]))]
    /\ StepTo(t, "end")
    /\ UNCHANGED <<regs0, plan, csLine, spiClock, spiOpen, configured, pc,
                   script, call, loc, result, entry, txlog>>

\* SPI.endTransaction()
EndTransaction(t) ==
    /\ xfer[t].step = "end"
    /\ spiOpen' = FALSE
    /\ wire' = [wire EXCEPT ![t] =
                   Append(@, Event("end", 0, csLine[xfer[t].cs]))]
    /\ StepTo(t, "deselect")
    /\ UNCHANGED <<regs0, plan, regs, csLine, dev, spiClock, configured, pc,
                   script, call, loc, result, entry, txlog>>

\* Variant of the last statement of SPI_Read / SPI_Write that returns
\* without raising the select line.
DeselectDeviceWithoutRaise(t) ==
    /\ xfer[t].step = "deselect"
    /\ wire' = [wire EXCEPT ![t] = Append(@, Event("cs_high", 0, HIGH))]
    /\ txlog' = [txlog EXCEPT ![t] =
                    Append(@, [fn |-> xfer[t].fn, cs |-> xfer[t].cs,
                               commandByte |-> xfer[t].commandByte,
                               dataByte |-> IF xfer[t].fn = "SPI_Read"
                                            THEN xfer[t].readValue
                                            ELSE xfer[t].dataByte])]
    /\ StepTo(t, "return")
    /\ UNCHANGED <<regs0, plan, regs, csLine, dev, spiClock, spiOpen,
                   configured, pc, script, call, loc, result, entry>>

\* digitalWrite(chipSelectPin, HIGH); return: the rising edge ends the frame.
DeselectDevice(t) ==
    /\ xfer[t].step = "deselect"
    /\ csLine' = [csLine EXCEPT ![xfer[t].cs] = HIGH]
    /\ dev' = [dev EXCEPT ![xfer[t].cs] = [phase |-> "idle", cmd |-> 0]]
    /\ wire' = [wire EXCEPT ![t] = Append(@, Event("cs_high", 0, HIGH))]
    /\ txlog' = [txlog EXCEPT ![t] =
                    Append(@, [fn |-> xfer[t].fn, cs |-> xfer[t].cs,
                               commandByte |-> xfer[t].commandByte,
                               dataByte |-> IF xfer[t].fn = "SPI_Read"
                                            THEN xfer[t].readValue
                                            ELSE xfer[t].dataByte])]
    /\ StepTo(t, "return")
    /\ UNCHANGED <<regs0, plan, regs, spiClock, spiOpen, configured, pc,
                   script, call, loc, result, entry>>

Transport(t) ==
    \/ SelectDevice(t)
    \/ BeginTransaction(t)
    \/ TransferCommand(t)
    \/ SPI_Read_TransferData(t)
    \/ SPI_Write_TransferData(t)
    \/ EndTransaction(t)
    \/ DeselectDevice(t)

\* ------------------------------------------------------------------------
\* Entering and leaving a driver function
\* ------------------------------------------------------------------------

NextCallIs(t, op) ==
    /\ pc[t] = "idle"
    /\ script[t] # <<>>
    /\ Head(script[t]).op = op

\* The caller takes the next call of its script; the register files and an
\* empty transaction log are noted for the call.
Enter(t) ==
    /\ call' = [call EXCEPT ![t] = Head(script[t])]
    /\ script' = [script EXCEPT ![t] = Tail(@)]
    /\ entry' = [entry EXCEPT ![t] = regs]
    /\ txlog' = [txlog EXCEPT ![t] = <<>>]

Locals(cmd, cmd2, pin, val, val2) ==
    [cmd |-> cmd, cmd2 |-> cmd2, pin |-> pin, val |-> val, val2 |-> val2]

SetLocals(t, l) == loc' = [loc EXCEPT ![t] = l]

\* The function returns to the caller.
Leave(t) ==
    /\ Goto(t, "idle")
    /\ xfer' = [xfer EXCEPT ![t] = NoTransfer]
    /\ SetLocals(t, NoLocals)

\* The call caller t made last has returned.
Completed(t, op) ==
    /\ pc[t] = "idle"
    /\ call[t].op = op

\* ------------------------------------------------------------------------
\* void XRA1405_begin(int8_t sck, int8_t miso, int8_t mosi, uint32_t freq)
\* ------------------------------------------------------------------------

\* The frequency XRA1405_begin hands to SPI.setFrequency.
ClampFrequency(freq) ==
    IF freq < MinFrequency \/ freq > MaxFrequency
    THEN XRA1405_SPI_CLOCK
    ELSE freq

XRA1405_begin(t) ==
    /\ NextCallIs(t, "begin")
    /\ Enter(t)
    /\ spiClock' = ClampFrequency(Head(script[t]).value)
    /\ configured' = ClampFrequency(Head(script[t]).value)
    /\ UNCHANGED <<regs0, plan, regs, csLine, dev, spiOpen, pc, loc, xfer,
                   result, wire>>

\* ------------------------------------------------------------------------
\* void XRA1405_pinMode(uint8_t chipSelectPin, uint8_t pin, uint8_t mode)
\* ------------------------------------------------------------------------

\* Line 24: the configuration byte to write back.
newConfigValue(mode, gpioConfigRegisterValue, pin) ==
    IF mode = "OUTPUT"
    THEN ClearBit(gpioConfigRegisterValue, pin)
    ELSE SetBit(gpioConfigRegisterValue, pin)

\* Lines 17-21: select the configuration register, pin %= 8, read it.
XRA1405_pinMode(t) ==
    /\ NextCallIs(t, "pinMode")
    /\ Enter(t)
    /\ LET c == Head(script[t])
           gpioConfigRegisterCommand == SelectBank(c.pin, GCR1, GCR2)
       IN  /\ SetLocals(t, Locals(gpioConfigRegisterCommand, 0, c.pin % 8,
                                  0, 0))
           /\ SPI_Read(t, c.cs, setReadMode(gpioConfigRegisterCommand))
    /\ Goto(t, "pinMode_modify")
    /\ UNCHANGED <<regs0, plan, regs, csLine, dev, spiClock, spiOpen,
                   configured, result, wire>>

\* Lines 24-27: clear the bit for OUTPUT, set it otherwise, write it back.
pinMode_Modify(t) ==
    /\ pc[t] = "pinMode_modify"
    /\ Returned(t)
    /\ LET gpioConfigRegisterValue == xfer[t].readValue
       IN  /\ SetLocals(t, [loc[t] EXCEPT !.val = gpioConfigRegisterValue])
           /\ SPI_Write(t, call[t].cs, setWriteMode(loc[t].cmd),
                        newConfigValue(call[t].mode, gpioConfigRegisterValue,
                                       loc[t].pin))
    /\ Goto(t, "pinMode_pullup")
    /\ UNCHANGED <<regs0, plan, regs, csLine, dev, spiClock, spiOpen,
                   configured, script, call, result, entry, txlog, wire>>

\* Lines 30-33: for INPUT_PULLUP select the pull-up register, from the pin
\* as line 18 left it, and read it; for the other modes return.
pinMode_PullUp(t) ==
    /\ pc[t] = "pinMode_pullup"
    /\ Returned(t)
    /\ IF call[t].mode = "INPUT_PULLUP"
       THEN LET pullUpResistorRegisterCommand ==
                    SelectBank(loc[t].pin, PUR1, PUR2)
            IN  /\ SetLocals(t, [loc[t] EXCEPT
                                    !.cmd2 = pullUpResistorRegisterCommand])
                /\ SPI_Read(t, call[t].cs,
                            setReadMode(pullUpResistorRegisterCommand))
                /\ Goto(t, "pinMode_pullup_write")
       ELSE Leave(t)
    /\ UNCHANGED <<regs0, plan, regs, csLine, dev, spiClock, spiOpen,
                   configured, script, call, result, entry, txlog, wire>>

\* Variant of line 34 that writes the pull-up register with the bit cleared.
pinMode_PullUpWriteCleared(t) ==
    /\ pc[t] = "pinMode_pullup_write"
    /\ Returned(t)
    /\ LET pullUpResistorRegisterValue == xfer[t].readValue
       IN  /\ SetLocals(t, [loc[t] EXCEPT !.val2 = pullUpResistorRegisterValue])
           /\ SPI_Write(t, call[t].cs, setWriteMode(loc[t].cmd2),
                        ClearBit(pullUpResistorRegisterValue, loc[t].pin))
    /\ Goto(t, "pinMode_return")
    /\ UNCHANGED <<regs0, plan, regs, csLine, dev, spiClock, spiOpen,
                   configured, script, call, result, entry, txlog, wire>>

\* Line 34: write the pull-up register with the pin's bit set.
pinMode_PullUpWrite(t) ==
    /\ pc[t] = "pinMode_pullup_write"
    /\ Returned(t)
    /\ LET pullUpResistorRegisterValue == xfer[t].readValue
       IN  /\ SetLocals(t, [loc[t] EXCEPT !.val2 = pullUpResistorRegisterValue])
           /\ SPI_Write(t, call[t].cs, setWriteMode(loc[t].cmd2),
                        SetBit(pullUpResistorRegisterValue, loc[t].pin))
    /\ Goto(t, "pinMode_return")
    /\ UNCHANGED <<regs0, plan, regs, csLine, dev, spiClock, spiOpen,
                   configured, script, call, result, entry, txlog, wire>>

\* Line 36.
pinMode_Return(t) ==
    /\ pc[t] = "pinMode_return"
    /\ Returned(t)
    /\ Leave(t)
    /\ UNCHANGED <<regs0, plan, regs, csLine, dev, spiClock, spiOpen,
                   configured, script, call, result, entry, txlog, wire>>

\* ------------------------------------------------------------------------
\* void XRA1405_digitalWrite(uint8_t chipSelectPin, uint8_t pin, uint8_t value)
\* ------------------------------------------------------------------------

\* Variant of line 47 with the two levels swapped.
newOutputControlValueSwapped(value, outputControlRegisterValue, pin) ==
    IF value = HIGH
    THEN ClearBit(outputControlRegisterValue, pin)
    ELSE SetBit(outputControlRegisterValue, pin)

\* Variant of line 47 that sets the bit whatever the level.
newOutputControlValueAlwaysSet(value, outputControlRegisterValue, pin) ==
    SetBit(outputControlRegisterValue, pin)

\* Line 47: the output-control byte to write back.
newOutputControlValue(value, outputControlRegisterValue, pin) ==
    IF value = HIGH
    THEN SetBit(outputControlRegisterValue, pin)
    ELSE ClearBit(outputControlRegisterValue, pin)

\* Lines 40-44: select the output-control register, pin %= 8, read it.
XRA1405_digitalWrite(t) ==
    /\ NextCallIs(t, "digitalWrite")
    /\ Enter(t)
    /\ LET c == Head(script[t])
           outputControlRegisterCommand == SelectBank(c.pin, OCR1, OCR2)
       IN  /\ SetLocals(t, Locals(outputControlRegisterCommand, 0, c.pin % 8,
                                  0, 0))
           /\ SPI_Read(t, c.cs, setReadMode(outputControlRegisterCommand))
    /\ Goto(t, "digitalWrite_modify")
    /\ UNCHANGED <<regs0, plan, regs, csLine, dev, spiClock, spiOpen,
                   configured, result, wire>>

\* Lines 47-50: set the bit for HIGH, clear it otherwise, write it back.
digitalWrite_Modify(t) ==
    /\ pc[t] = "digitalWrite_modify"
    /\ Returned(t)
    /\ LET outputControlRegisterValue == xfer[t].readValue
       IN  /\ SetLocals(t, [loc[t] EXCEPT !.val = outputControlRegisterValue])
           /\ SPI_Write(t, call[t].cs, setWriteMode(loc[t].cmd),
                        newOutputControlValue(call[t].value,
                                              outputControlRegisterValue,
                                              loc[t].pin))
    /\ Goto(t, "digitalWrite_return")
    /\ UNCHANGED <<regs0, plan, regs, csLine, dev, spiClock, spiOpen,
                   configured, script, call, result, entry, txlog, wire>>

\* Line 51.
digitalWrite_Return(t) ==
    /\ pc[t] = "digitalWrite_return"
    /\ Returned(t)
    /\ Leave(t)
    /\ UNCHANGED <<regs0, plan, regs, csLine, dev, spiClock, spiOpen,
                   configured, script, call, result, entry, txlog, wire>>

\* ------------------------------------------------------------------------
\* uint8_t XRA1405_digitalRead(uint8_t chipSelectPin, uint8_t pin)
\* ------------------------------------------------------------------------

\* Lines 55-59: select the state register, pin %= 8, read it.
XRA1405_digitalRead(t) ==
    /\ NextCallIs(t, "digitalRead")
    /\ Enter(t)
    /\ LET c == Head(script[t])
           gpioStateRegisterCommand == SelectBank(c.pin, GSR1, GSR2)
       IN  /\ SetLocals(t, Locals(gpioStateRegisterCommand, 0, c.pin % 8, 0, 0))
           /\ SPI_Read(t, c.cs, setReadMode(gpioStateRegisterCommand))
    /\ Goto(t, "digitalRead_return")
    /\ UNCHANGED <<regs0, plan, regs, csLine, dev, spiClock, spiOpen,
                   configured, result, wire>>

\* Variant of line 62 without the shift.
digitalRead_ReturnUnshifted(t) ==
    /\ pc[t] = "digitalRead_return"
    /\ Returned(t)
    /\ result' = [result EXCEPT ![t] = xfer[t].readValue % 2]
    /\ Leave(t)
    /\ UNCHANGED <<regs0, plan, regs, csLine, dev, spiClock, spiOpen,
                   configured, script, call, entry, txlog, wire>>

\* Line 62: return (gpioStateRegisterValue >> pin) & 0x01.
digitalRead_Return(t) ==
    /\ pc[t] = "digitalRead_return"
    /\ Returned(t)
    /\ result' = [result EXCEPT ![t] = Bit(xfer[t].readValue, loc[t].pin)]
    /\ Leave(t)
    /\ UNCHANGED <<regs0, plan, regs, csLine, dev, spiClock, spiOpen,
                   configured, script, call, entry, txlog, wire>>

\* ------------------------------------------------------------------------
\* void XRA1405_setPullUp(uint8_t chipSelectPin, uint8_t pin, bool enabled)
\* ------------------------------------------------------------------------

\* Line 75: the pull-up byte to write back.
newPullUpValue(enabled, pullUpResistorRegisterValue, pin) ==
    IF enabled
    THEN SetBit(pullUpResistorRegisterValue, pin)
    ELSE ClearBit(pullUpResistorRegisterValue, pin)

\* Lines 68-72: select the pull-up register, pin %= 8, read it.
XRA1405_setPullUp(t) ==
    /\ NextCallIs(t, "setPullUp")
    /\ Enter(t)
    /\ LET c == Head(script[t])
           pullUpResistorRegisterCommand == SelectBank(c.pin, PUR1, PUR2)
       IN  /\ SetLocals(t, Locals(pullUpResistorRegisterCommand, 0, c.pin % 8,
                                  0, 0))
           /\ SPI_Read(t, c.cs, setReadMode(pullUpResistorRegisterCommand))
    /\ Goto(t, "setPullUp_modify")
    /\ UNCHANGED <<regs0, plan, regs, csLine, dev, spiClock, spiOpen,
                   configured, result, wire>>

\* Lines 75-78: set the bit when enabled, clear it otherwise, write it back.
setPullUp_Modify(t) ==
    /\ pc[t] = "setPullUp_modify"
    /\ Returned(t)
    /\ LET pullUpResistorRegisterValue == xfer[t].readValue
       IN  /\ SetLocals(t, [loc[t] EXCEPT !.val = pullUpResistorRegisterValue])
           /\ SPI_Write(t, call[t].cs, setWriteMode(loc[t].cmd),
                        newPullUpValue(call[t].enabled,
                                       pullUpResistorRegisterValue, loc[t].pin))
    /\ Goto(t, "setPullUp_return")
    /\ UNCHANGED <<regs0, plan, regs, csLine, dev, spiClock, spiOpen,
                   configured, script, call, result, entry, txlog, wire>>

\* Line 79.
setPullUp_Return(t) ==
    /\ pc[t] = "setPullUp_return"
    /\ Returned(t)
    /\ Leave(t)
    /\ UNCHANGED <<regs0, plan, regs, csLine, dev, spiClock, spiOpen,
                   configured, script, call, result, entry, txlog, wire>>

\* ------------------------------------------------------------------------
\* void XRA1405_setInterrupt(uint8_t chipSelectPin, uint8_t pin,
\*                           XRA1405_InterruptType interruptType)
\* ------------------------------------------------------------------------

\* Lines 83-87: select the interrupt-enable register, pin %= 8, read it.
XRA1405_setInterrupt(t) ==
    /\ NextCallIs(t, "setInterrupt")
    /\ Enter(t)
    /\ LET c == Head(script[t])
           interruptEnableRegisterCommand == SelectBank(c.pin, IER1, IER2)
       IN  /\ SetLocals(t, Locals(interruptEnableRegisterCommand, 0, c.pin % 8,
                                  0, 0))
           /\ SPI_Read(t, c.cs, setReadMode(interruptEnableRegisterCommand))
    /\ Goto(t, "setInterrupt_enable")
    /\ UNCHANGED <<regs0, plan, regs, csLine, dev, spiClock, spiOpen,
                   configured, result, wire>>

\* Variant of lines 88-89 that clears the pin's bit for INTERRUPT_DISABLE.
setInterrupt_EnableUnlessDisabled(t) ==
    /\ pc[t] = "setInterrupt_enable"
    /\ Returned(t)
    /\ LET interruptEnableRegisterValue ==
               IF call[t].mode = "INTERRUPT_DISABLE"
               THEN ClearBit(xfer[t].readValue, loc[t].pin)
               ELSE SetBit(xfer[t].readValue, loc[t].pin)
       IN  /\ SetLocals(t, [loc[t] EXCEPT !.val = interruptEnableRegisterValue])
           /\ SPI_Write(t, call[t].cs, setWriteMode(loc[t].cmd),
                        interruptEnableRegisterValue)
    /\ Goto(t, "setInterrupt_configure")
    /\ UNCHANGED <<regs0, plan, regs, csLine, dev, spiClock, spiOpen,
                   configured, script, call, result, entry, txlog, wire>>

\* Lines 88-89: set the pin's bit, whatever the type, and write it back.
setInterrupt_Enable(t) ==
    /\ pc[t] = "setInterrupt_enable"
    /\ Returned(t)
    /\ LET interruptEnableRegisterValue == SetBit(xfer[t].readValue, loc[t].pin)
       IN  /\ SetLocals(t, [loc[t] EXCEPT !.val = interruptEnableRegisterValue])
           /\ SPI_Write(t, call[t].cs, setWriteMode(loc[t].cmd),
                        interruptEnableRegisterValue)
    /\ Goto(t, "setInterrupt_configure")
    /\ UNCHANGED <<regs0, plan, regs, csLine, dev, spiClock, spiOpen,
                   configured, script, call, result, entry, txlog, wire>>

\* ------------------------------------------------------------------------
\* static void configureEdgeInterrupt(uint8_t chipSelectPin, uint8_t pin,
\*                                    XRA1405_InterruptType interruptType)
\* ------------------------------------------------------------------------

enableRising(interruptType) ==
    interruptType = "INTERRUPT_RISING" \/ interruptType = "INTERRUPT_BOTH"

enableFalling(interruptType) ==
    interruptType = "INTERRUPT_FALLING" \/ interruptType = "INTERRUPT_BOTH"

\* Line 92 and lines 146-154: XRA1405_setInterrupt passes the pin as its
\* line 84 left it; the edge registers are selected from that pin, then
\* pin %= 8 and the rising-edge register is read.
configureEdgeInterrupt(t) ==
    /\ pc[t] = "setInterrupt_configure"
    /\ Returned(t)
    /\ LET pin == loc[t].pin
           risingEdgeRegisterCommand == SelectBank(pin, REIR1, REIR2)
           fallingEdgeRegisterCommand == SelectBank(pin, FEIR1, FEIR2)
       IN  /\ SetLocals(t, Locals(risingEdgeRegisterCommand,
                                  fallingEdgeRegisterCommand, pin % 8, 0, 0))
           /\ SPI_Read(t, call[t].cs, setReadMode(risingEdgeRegisterCommand))
    /\ Goto(t, "configureEdge_rising")
    /\ UNCHANGED <<regs0, plan, regs, csLine, dev, spiClock, spiOpen,
                   configured, script, call, result, entry, txlog, wire>>

\* Lines 155-156: set or clear the rising-edge bit and write it back.
configureEdge_Rising(t) ==
    /\ pc[t] = "configureEdge_rising"
    /\ Returned(t)
    /\ LET risingInterruptRegisterValue ==
               IF enableRising(call[t].mode)
               THEN SetBit(xfer[t].readValue, loc[t].pin)
               ELSE ClearBit(xfer[t].readValue, loc[t].pin)
       IN  /\ SetLocals(t, [loc[t] EXCEPT !.val = risingInterruptRegisterValue])
           /\ SPI_Write(t, call[t].cs, setWriteMode(loc[t].cmd),
                        risingInterruptRegisterValue)
    /\ Goto(t, "configureEdge_read_falling")
    /\ UNCHANGED <<regs0, plan, regs, csLine, dev, spiClock, spiOpen,
                   configured, script, call, result, entry, txlog, wire>>

\* Line 159: read the falling-edge register.
configureEdge_ReadFalling(t) ==
    /\ pc[t] = "configureEdge_read_falling"
    /\ Returned(t)
    /\ SPI_Read(t, call[t].cs, setReadMode(loc[t].cmd2))
    /\ Goto(t, "configureEdge_falling")
    /\ UNCHANGED <<regs0, plan, regs, csLine, dev, spiClock, spiOpen,
                   configured, script, call, loc, result, entry, txlog, wire>>

\* Lines 160-161: set or clear the falling-edge bit and write it back.
configureEdge_Falling(t) ==
    /\ pc[t] = "configureEdge_falling"
    /\ Returned(t)
    /\ LET fallingInterruptRegisterValue ==
               IF enableFalling(call[t].mode)
               THEN SetBit(xfer[t].readValue, loc[t].pin)
               ELSE ClearBit(xfer[t].readValue, loc[t].pin)
       IN  /\ SetLocals(t, [loc[t] EXCEPT
                               !.val2 = fallingInterruptRegisterValue])
           /\ SPI_Write(t, call[t].cs, setWriteMode(loc[t].cmd2),
                        fallingInterruptRegisterValue)
    /\ Goto(t, "configureEdge_disable")
    /\ UNCHANGED <<regs0, plan, regs, csLine, dev, spiClock, spiOpen,
                   configured, script, call, result, entry, txlog, wire>>

\* Lines 164-166: for INTERRUPT_DISABLE write the rising-edge register
\* again, with the bit cleared in the value written before; else return.
configureEdge_Disable(t) ==
    /\ pc[t] = "configureEdge_disable"
    /\ Returned(t)
    /\ IF call[t].mode = "INTERRUPT_DISABLE"
       THEN /\ SPI_Write(t, call[t].cs, setWriteMode(loc[t].cmd),
                         ClearBit(loc[t].val, loc[t].pin))
            /\ Goto(t, "configureEdge_disable_falling")
            /\ UNCHANGED loc
       ELSE Leave(t)
    /\ UNCHANGED <<regs0, plan, regs, csLine, dev, spiClock, spiOpen,
                   configured, script, call, result, entry, txlog, wire>>

\* Variant of line 167 that takes the rising-edge value for the falling one.
configureEdge_DisableFallingFromRising(t) ==
    /\ pc[t] = "configureEdge_disable_falling"
    /\ Returned(t)
    /\ SPI_Write(t, call[t].cs, setWriteMode(loc[t].cmd2),
                 ClearBit(loc[t].val, loc[t].pin))
    /\ Goto(t, "configureEdge_return")
    /\ UNCHANGED <<regs0, plan, regs, csLine, dev, spiClock, spiOpen,
                   configured, script, call, loc, result, entry, txlog, wire>>

\* Line 167: the same for the falling-edge register.
configureEdge_DisableFalling(t) ==
    /\ pc[t] = "configureEdge_disable_falling"
    /\ Returned(t)
    /\ SPI_Write(t, call[t].cs, setWriteMode(loc[t].cmd2),
                 ClearBit(loc[t].val2, loc[t].pin))
    /\ Goto(t, "configureEdge_return")
    /\ UNCHANGED <<regs0, plan, regs, csLine, dev, spiClock, spiOpen,
                   configured, script, call, loc, result, entry, txlog, wire>>

\* Lines 168-169 and 93: back through XRA1405_setInterrupt to the caller.
configureEdge_Return(t) ==
    /\ pc[t] = "configureEdge_return"
    /\ Returned(t)
    /\ Leave(t)
    /\ UNCHANGED <<regs0, plan, regs, csLine, dev, spiClock, spiOpen,
                   configured, script, call, result, entry, txlog, wire>>

\* ------------------------------------------------------------------------
\* void XRA1405_clearInterrupts(uint8_t chipSelectPin)
\* ------------------------------------------------------------------------

\* Lines 97-101: read ISR1.
XRA1405_clearInterrupts(t) ==
    /\ NextCallIs(t, "clearInterrupts")
    /\ Enter(t)
    /\ SetLocals(t, Locals(ISR1, ISR2, 0, 0, 0))
    /\ SPI_Read(t, Head(script[t]).cs, setReadMode(ISR1))
    /\ Goto(t, "clearInterrupts_second")
    /\ UNCHANGED <<regs0, plan, regs, csLine, dev, spiClock, spiOpen,
                   configured, result, wire>>

\* Variant of the second read that addresses the first register again.
clearInterrupts_SecondRepeatsFirst(t) ==
    /\ pc[t] = "clearInterrupts_second"
    /\ Returned(t)
    /\ SPI_Read(t, call[t].cs, setReadMode(loc[t].cmd))
    /\ Goto(t, "clearInterrupts_return")
    /\ UNCHANGED <<regs0, plan, regs, csLine, dev, spiClock, spiOpen,
                   configured, script, call, loc, result, entry, txlog, wire>>

\* Line 106: read ISR2.
clearInterrupts_Second(t) ==
    /\ pc[t] = "clearInterrupts_second"
    /\ Returned(t)
    /\ SPI_Read(t, call[t].cs, setReadMode(loc[t].cmd2))
    /\ Goto(t, "clearInterrupts_return")
    /\ UNCHANGED <<regs0, plan, regs, csLine, dev, spiClock, spiOpen,
                   configured, script, call, loc, result, entry, txlog, wire>>

\* Line 108.
clearInterrupts_Return(t) ==
    /\ pc[t] = "clearInterrupts_return"
    /\ Returned(t)
    /\ Leave(t)
    /\ UNCHANGED <<regs0, plan, regs, csLine, dev, spiClock, spiOpen,
                   configured, script, call, result, entry, txlog, wire>>

\* ------------------------------------------------------------------------
\* Specification: XRA1405_begin, then one call of any device operation
\* ------------------------------------------------------------------------

PinMode(t) ==
    \/ XRA1405_pinMode(t)
    \/ pinMode_Modify(t)
    \/ pinMode_PullUp(t)
    \/ pinMode_PullUpWrite(t)
    \/ pinMode_Return(t)

DigitalWrite(t) ==
    \/ XRA1405_digitalWrite(t)
    \/ digitalWrite_Modify(t)
    \/ digitalWrite_Return(t)

DigitalRead(t) ==
    \/ XRA1405_digitalRead(t)
    \/ digitalRead_Return(t)

SetPullUp(t) ==
    \/ XRA1405_setPullUp(t)
    \/ setPullUp_Modify(t)
    \/ setPullUp_Return(t)

SetInterrupt(t) ==
    \/ XRA1405_setInterrupt(t)
    \/ setInterrupt_Enable(t)
    \/ configureEdgeInterrupt(t)
    \/ configureEdge_Rising(t)
    \/ configureEdge_ReadFalling(t)
    \/ configureEdge_Falling(t)
    \/ configureEdge_Disable(t)
    \/ configureEdge_DisableFalling(t)
    \/ configureEdge_Return(t)

ClearInterrupts(t) ==
    \/ XRA1405_clearInterrupts(t)
    \/ clearInterrupts_Second(t)
    \/ clearInterrupts_Return(t)

Next ==
    \E t \in Callers :
        \/ XRA1405_begin(t)
        \/ PinMode(t)
        \/ DigitalWrite(t)
        \/ DigitalRead(t)
        \/ SetPullUp(t)
        \/ SetInterrupt(t)
        \/ ClearInterrupts(t)
        \/ Transport(t)

Spec == Init /\ [][Next]_vars

\* ------------------------------------------------------------------------
\* Vocabulary of the properties
\* ------------------------------------------------------------------------

\* Address of the register of a family (given by the command of its low
\* bank) that belongs to a pin: low bank for pins 0-7, high for 8-15.
BankOfPin(pin) == IF pin <= 7 THEN 0 ELSE 1
RegisterOfPin(lowCommand, pin) == (lowCommand \div 2) + BankOfPin(pin)
BitOfPin(pin) == pin % 8

\* The bank a command byte addresses: the two banks of a family are
\* neighbours, the low bank at the even address.
BankOfCommand(commandByte) == ((commandByte % 128) \div 2) % 2

\* Bytes v and w agree in every bit but (possibly) bit n.
SameButBit(v, w, n) == \A i \in 0 .. 7 : i # n => Bit(v, i) = Bit(w, i)

PinOps == {"pinMode", "digitalWrite", "digitalRead", "setPullUp",
           "setInterrupt"}
MutatingOps == {"pinMode", "digitalWrite", "setPullUp", "setInterrupt"}

\* Caller t is inside SPI_Read / SPI_Write, or has just returned from it.
InTransfer(t) == xfer[t].fn # "none"

\* The register a transfer addresses: its device and address.
Target(x) == <<x.cs, (x.commandByte % 128) \div 2>>

\* The registers call[t] has addressed so far.
Addressed(t) ==
    {Target(txlog[t][i]) : i \in 1 .. Len(txlog[t])}
        \cup (IF InTransfer(t) THEN {Target(xfer[t])} ELSE {})

\* The four edge registers of a device.
EdgeRegisters == {REIR1 \div 2, REIR2 \div 2, FEIR1 \div 2, FEIR2 \div 2}

\* The bytes caller t has put on the bus in its SPI_Read / SPI_Write.
TransferEvents(t) ==
    SelectSeq(wire[t], LAMBDA e : e.ev = "transfer")

\* The bus events of one SPI_Read / SPI_Write, in order.
FrameEvents == <<"cs_low", "begin", "transfer", "transfer", "end", "cs_high">>

\* The caller is between its select-low and its select-high.
InFrame(t) == xfer[t].step \in {"begin", "command", "data", "end", "deselect"}

\* The register family a transfer addresses, named by the command of the
\* family's low bank.
FamilyOf(x) == 2 * (Target(x)[2] - (Target(x)[2] % 2))

\* The transactions of XRA1405_setInterrupt, in order, as function and
\* register family; the last two only for INTERRUPT_DISABLE.
SetInterruptOrder ==
    <<<<"SPI_Read", IER1>>, <<"SPI_Write", IER1>>,
      <<"SPI_Read", REIR1>>, <<"SPI_Write", REIR1>>,
      <<"SPI_Read", FEIR1>>, <<"SPI_Write", FEIR1>>,
      <<"SPI_Write", REIR1>>, <<"SPI_Write", FEIR1>>>>

\* The writes to edge registers that call[t] has completed so far.
EdgeWrites(t) ==
    SelectSeq(txlog[t], LAMBDA x : /\ x.fn = "SPI_Write"
                                   /\ Target(x)[2] \in EdgeRegisters)

\* The calls caller t has made so far, the one in progress included.
Made(t) == SubSeq(plan[t], 1, Len(plan[t]) - Len(script[t]))

\* The positions in Made(t) of the XRA1405_digitalWrite calls that name
\* pin of device d.
WritesNaming(t, d, pin) ==
    {i \in 1 .. Len(Made(t)) : /\ Made(t)[i].op = "digitalWrite"
                               /\ Made(t)[i].cs = d
                               /\ Made(t)[i].pin = pin}

Latest(S) == CHOOSE i \in S : \A j \in S : j <= i

\* ------------------------------------------------------------------------
\* C1. Register-pair selection: every transaction of an operation on a pin
\* addresses the low bank of its register family for pins 0-7 and the high
\* bank for pins 8-15, and a write changes no bit but bit pin mod 8.
\* Stated as the claim states it; the code violates it for pins 8-15 in
\* XRA1405_pinMode (pull-up register) and XRA1405_setInterrupt (edge
\* registers), where the bank is selected after pin %= 8.
\* ------------------------------------------------------------------------
C1_RegisterPairSelection ==
    \A t \in Callers :
        (call[t].op \in PinOps /\ InTransfer(t)) =>
            /\ BankOfCommand(xfer[t].commandByte) = BankOfPin(call[t].pin)
            /\ (xfer[t].fn = "SPI_Write" /\ xfer[t].step = "select") =>
                   SameButBit(xfer[t].dataByte,
                              regs[xfer[t].cs][Target(xfer[t])[2]],
                              BitOfPin(call[t].pin))

\* ------------------------------------------------------------------------
\* C2. Read-modify-write preserves untouched bits: the byte of every write
\* transaction of a mutating operation differs from the byte the addressed
\* register holds in at most bit pin mod 8, and throughout the call every
\* register differs from its value at entry in at most that bit, and not at
\* all unless the call has addressed it.
\* ------------------------------------------------------------------------
C2_PreservesUntouchedBits ==
    \A t \in Callers :
        call[t].op \in MutatingOps =>
            /\ (xfer[t].fn = "SPI_Write" /\ xfer[t].step # "return") =>
                   SameButBit(xfer[t].dataByte,
                              regs[xfer[t].cs][Target(xfer[t])[2]],
                              BitOfPin(call[t].pin))
            /\ \A d \in ChipSelects, a \in RegAddrs :
                   /\ SameButBit(regs[d][a], entry[t][d][a],
                                 BitOfPin(call[t].pin))
                   /\ <<d, a>> \notin Addressed(t) =>
                          regs[d][a] = entry[t][d][a]

\* A digital write has returned after changing its bit in a register whose
\* other bits are mixed.
C2_Witness ==
    \E t \in Callers :
        /\ Completed(t, "digitalWrite")
        /\ LET d == call[t].cs
               a == RegisterOfPin(OCR1, call[t].pin)
           IN  /\ regs[d][a] # entry[t][d][a]
               /\ entry[t][d][a] \notin {0, 255}
               /\ Len(txlog[t]) = 2

\* ------------------------------------------------------------------------
\* C3. After set_interrupt(pin, both) the rising-edge bit and the
\* falling-edge bit of the pin, in the edge registers of the pin's bank,
\* are 1 and every other bit of the four edge registers is unchanged.
\* Stated as the claim states it; the code violates it for pins 8-15.
\* ------------------------------------------------------------------------
C3_BothSetsBothEdgeBits ==
    \A t \in Callers :
        (Completed(t, "setInterrupt") /\ call[t].mode = "INTERRUPT_BOTH") =>
            LET d == call[t].cs
                r == RegisterOfPin(REIR1, call[t].pin)
                f == RegisterOfPin(FEIR1, call[t].pin)
                n == BitOfPin(call[t].pin)
            IN  /\ Bit(regs[d][r], n) = 1
                /\ Bit(regs[d][f], n) = 1
                /\ \A a \in EdgeRegisters :
                       IF a \in {r, f}
                       THEN SameButBit(regs[d][a], entry[t][d][a], n)
                       ELSE regs[d][a] = entry[t][d][a]

\* ------------------------------------------------------------------------
\* C4. After set_interrupt(pin, disabled) the rising-edge bit and the
\* falling-edge bit of the pin, in the edge registers of the pin's own
\* bank, are 0. Stated as the claim states it; the code violates it for
\* pins 8-15.
\* ------------------------------------------------------------------------
C4_DisabledClearsBothEdgeBits ==
    \A t \in Callers :
        (Completed(t, "setInterrupt") /\ call[t].mode = "INTERRUPT_DISABLE") =>
            LET d == call[t].cs
                n == BitOfPin(call[t].pin)
            IN  /\ Bit(regs[d][RegisterOfPin(REIR1, call[t].pin)], n) = 0
                /\ Bit(regs[d][RegisterOfPin(FEIR1, call[t].pin)], n) = 0

\* ------------------------------------------------------------------------
\* C5. set_pin_mode(pin, input_with_pullup) sets the configuration bit of
\* the pin and the pull-up bit of the same pin, in the pull-up register of
\* the pin's own bank, and changes no other pull-up bit. Stated as the
\* claim states it; the code violates it for pins 8-15.
\* ------------------------------------------------------------------------
C5_PullUpModeSetsOwnPullUpBit ==
    \A t \in Callers :
        (Completed(t, "pinMode") /\ call[t].mode = "INPUT_PULLUP") =>
            LET d == call[t].cs
                g == RegisterOfPin(GCR1, call[t].pin)
                u == RegisterOfPin(PUR1, call[t].pin)
                n == BitOfPin(call[t].pin)
            IN  /\ Bit(regs[d][g], n) = 1
                /\ Bit(regs[d][u], n) = 1
                /\ SameButBit(regs[d][u], entry[t][d][u], n)
                /\ \A a \in {PUR1 \div 2, PUR2 \div 2} \ {u} :
                       regs[d][a] = entry[t][d][a]

\* ------------------------------------------------------------------------
\* Specification: the end-to-end output path. Both configuration registers
\* start at 0xFF and both output-control registers at 0x00; the caller
\* runs set_pin_mode(p, output); digital_write(p, high); digital_read(p).
\* Its next-state relation holds the actions this script can reach.
\* ------------------------------------------------------------------------

EndToEndByte(file, d, a) ==
    CASE a \in {GCR1 \div 2, GCR2 \div 2} -> 255
      [] a \in {OCR1 \div 2, OCR2 \div 2} -> 0
      [] OTHER -> file[d][a]

EndToEndFiles ==
    {[d \in ChipSelects |-> [a \in RegAddrs |-> EndToEndByte(file, d, a)]] :
        file \in SeedFiles}

EndToEndScripts ==
    {[t \in Callers |->
         IF t = 1
         THEN <<b, Call("pinMode", d, p, "OUTPUT", 0, FALSE),
                Call("digitalWrite", d, p, "-", HIGH, FALSE),
                Call("digitalRead", d, p, "-", 0, FALSE)>>
         ELSE <<>>] :
        b \in BeginCalls, d \in ChipSelects, p \in Pins}

InitEndToEnd == InitWith(EndToEndFiles, EndToEndScripts)

NextEndToEnd ==
    \E t \in Callers :
        \/ XRA1405_begin(t)
        \/ XRA1405_pinMode(t)
        \/ pinMode_Modify(t)
        \/ pinMode_PullUp(t)
        \/ DigitalWrite(t)
        \/ DigitalRead(t)
        \/ Transport(t)

SpecEndToEnd == InitEndToEnd /\ [][NextEndToEnd]_vars

\* ------------------------------------------------------------------------
\* Specification: the round trip over the configuration bit. The caller
\* runs set_pin_mode(p, output); set_pin_mode(p, input) from any of the
\* initial register files.
\* ------------------------------------------------------------------------

RoundTripScripts ==
    {[t \in Callers |->
         IF t = 1
         THEN <<b, Call("pinMode", d, p, "OUTPUT", 0, FALSE),
                Call("pinMode", d, p, "INPUT", 0, FALSE)>>
         ELSE <<>>] :
        b \in BeginCalls, d \in ChipSelects, p \in Pins}

InitRoundTrip == InitWith(SeedFiles, RoundTripScripts)

NextRoundTrip ==
    \E t \in Callers :
        \/ XRA1405_begin(t)
        \/ XRA1405_pinMode(t)
        \/ pinMode_Modify(t)
        \/ pinMode_PullUp(t)
        \/ Transport(t)

SpecRoundTrip == InitRoundTrip /\ [][NextRoundTrip]_vars

\* ------------------------------------------------------------------------
\* C6. End-to-end output path, for every pin: from configuration 0xFF and
\* output-control 0x00, after set_pin_mode(p, output); digital_write(p,
\* high); digital_read(p) the read has returned high, configuration bit p
\* is 0, output-control bit p is 1 and every other bit of the
\* configuration and output-control registers is as it was.
\* ------------------------------------------------------------------------
C6_EndToEndOutputPath ==
    \A t \in Callers :
        (Completed(t, "digitalRead") /\ script[t] = <<>>) =>
            LET d == call[t].cs
                g == RegisterOfPin(GCR1, call[t].pin)
                o == RegisterOfPin(OCR1, call[t].pin)
                n == BitOfPin(call[t].pin)
            IN  /\ result[t] = HIGH
                /\ Bit(regs[d][g], n) = 0
                /\ Bit(regs[d][o], n) = 1
                /\ SameButBit(regs[d][g], 255, n)
                /\ SameButBit(regs[d][o], 0, n)
                /\ \A a \in {GCR1 \div 2, GCR2 \div 2, OCR1 \div 2,
                             OCR2 \div 2} \ {g, o} :
                       regs[d][a] = regs0[d][a]

\* The three calls have been made on a pin of the high bank whose applied
\* level is low, so that the value read comes from the output path.
C6_Witness ==
    \E t \in Callers :
        /\ Completed(t, "digitalRead")
        /\ script[t] = <<>>
        /\ call[t].pin = 11
        /\ regs0[call[t].cs][GSR2 \div 2] = 0
        /\ regs0[call[t].cs][GCR2 \div 2] = 255
        /\ regs0[call[t].cs][OCR2 \div 2] = 0
        /\ result[t] = 1

\* ------------------------------------------------------------------------
\* C7. Round trip over the configuration bit: when the configuration bit
\* of the pin is 1 initially, it is 0 after set_pin_mode(pin, output), and
\* after the following set_pin_mode(pin, input) the configuration register
\* of the pin's bank equals its initial value.
\* ------------------------------------------------------------------------
C7_ConfigurationRoundTrip ==
    \A t \in Callers :
        LET d == call[t].cs
            g == RegisterOfPin(GCR1, call[t].pin)
            n == BitOfPin(call[t].pin)
        IN  (Completed(t, "pinMode") /\ Bit(regs0[d][g], n) = 1) =>
                /\ call[t].mode = "OUTPUT" =>
                       /\ Bit(regs[d][g], n) = 0
                       /\ SameButBit(regs[d][g], regs0[d][g], n)
                /\ call[t].mode = "INPUT" => regs[d][g] = regs0[d][g]

\* Both calls have returned, on a register whose bits were mixed.
C7_Witness ==
    \E t \in Callers :
        /\ Completed(t, "pinMode")
        /\ call[t].mode = "INPUT"
        /\ script[t] = <<>>
        /\ LET v == regs0[call[t].cs][RegisterOfPin(GCR1, call[t].pin)]
           IN  /\ Bit(v, BitOfPin(call[t].pin)) = 1
               /\ v \notin {0, 255}
               /\ call[t].pin >= 8

\* ------------------------------------------------------------------------
\* C8. Command-byte framing: the command byte of every read transaction
\* has bit 7 = 1, that of every write transaction has bit 7 = 0, bit 0 is
\* 0 and bits 6:1 hold the address of one of the 22 registers; the command
\* byte is the first byte put on the bus in the transaction.
\* ------------------------------------------------------------------------
C8_CommandByteFraming ==
    \A t \in Callers :
        InTransfer(t) =>
            LET c == xfer[t].commandByte
            IN  /\ xfer[t].fn = "SPI_Read" => c \div 128 = 1
                /\ xfer[t].fn = "SPI_Write" => c \div 128 = 0
                /\ c % 2 = 0
                /\ (c % 128) \div 2 \in 0 .. 21
                /\ (xfer[t].step # "select" /\ TransferEvents(t) # <<>>) =>
                       TransferEvents(t)[1].byte = c

\* A read and a write have completed in one call, the write on IER2.
C8_Witness ==
    \E t \in Callers :
        /\ Len(txlog[t]) >= 2
        /\ txlog[t][1].fn = "SPI_Read"
        /\ txlog[t][1].commandByte = 128 + IER2
        /\ txlog[t][2].fn = "SPI_Write"
        /\ txlog[t][2].commandByte = IER2

\* ------------------------------------------------------------------------
\* C9. Frequency clamp: XRA1405_begin configures the frequency it is given
\* when that lies in [24 MHz, 26 MHz] and 26 MHz otherwise, and the bus
\* transactions that follow run at the configured frequency. Stated as
\* the claim states it; the code violates the last part, SPI_Read and
\* SPI_Write opening every transaction at XRA1405_SPI_CLOCK.
\* ------------------------------------------------------------------------
C9_FrequencyClamp ==
    /\ \A t \in Callers :
           Completed(t, "begin") =>
               /\ configured = IF /\ 24000000 <= call[t].value
                                  /\ call[t].value <= 26000000
                               THEN call[t].value
                               ELSE 26000000
               /\ spiClock = configured
    /\ configured # 0 => (24000000 <= configured /\ configured <= 26000000)
    /\ spiOpen => spiClock = configured

\* ------------------------------------------------------------------------
\* C10. Transaction framing: every SPI_Read / SPI_Write is select low,
\* command byte, one data byte, select high, in that order; the select
\* lines are high whenever no transaction is in progress; no transaction
\* starts while another is open; no byte is transferred while the select
\* line is high.
\* ------------------------------------------------------------------------
C10_TransactionFraming ==
    /\ \A t \in Callers :
           /\ Len(wire[t]) <= Len(FrameEvents)
           /\ \A i \in 1 .. Len(wire[t]) : wire[t][i].ev = FrameEvents[i]
           /\ \A i \in 1 .. Len(wire[t]) :
                  wire[t][i].ev = "transfer" => wire[t][i].sel = LOW
           /\ Returned(t) =>
                  /\ Len(wire[t]) = Len(FrameEvents)
                  /\ wire[t][3].byte = xfer[t].commandByte
                  /\ wire[t][4].byte = xfer[t].dataByte
           /\ InFrame(t) => csLine[xfer[t].cs] = LOW
           /\ xfer[t].step = "select" => ~spiOpen
    /\ (\A t \in Callers : ~InFrame(t)) =>
           /\ \A d \in ChipSelects : csLine[d] = HIGH
           /\ ~spiOpen

\* The second transaction of a call, a write, has returned.
C10_Witness ==
    \E t \in Callers :
        /\ Returned(t)
        /\ xfer[t].fn = "SPI_Write"
        /\ Len(txlog[t]) = 2
        /\ wire[t][4].byte # 0

\* ------------------------------------------------------------------------
\* C11. XRA1405_clearInterrupts issues exactly two transactions, both
\* reads: the first of ISR1 (low bank), the second of ISR2 (high bank).
\* It issues no write.
\* ------------------------------------------------------------------------
C11_ClearInterruptsTwoReads ==
    \A t \in Callers :
        call[t].op = "clearInterrupts" =>
            /\ xfer[t].fn # "SPI_Write"
            /\ Len(txlog[t]) <= 2
            /\ \A i \in 1 .. Len(txlog[t]) :
                   /\ txlog[t][i].fn = "SPI_Read"
                   /\ txlog[t][i].cs = call[t].cs
            /\ Len(txlog[t]) >= 1 =>
                   txlog[t][1].commandByte = XRA1405_READ + ISR1
            /\ Len(txlog[t]) >= 2 =>
                   txlog[t][2].commandByte = XRA1405_READ + ISR2
            /\ pc[t] = "idle" => Len(txlog[t]) = 2

\* A call of XRA1405_clearInterrupts has returned after its two reads.
C11_Witness ==
    \E t \in Callers :
        /\ Completed(t, "clearInterrupts")
        /\ Len(txlog[t]) = 2

\* ------------------------------------------------------------------------
\* Specification: two callers, one XRA1405_digitalWrite each, on two pins
\* of one output-control register, without a lock around the read and the
\* write of a call. The bus passes from one caller to the other between
\* transactions only, so that each SPI_Read / SPI_Write is atomic.
\* ------------------------------------------------------------------------

\* Two different pins of one bank.
RacePins == {pq \in Pins \X Pins : pq[1] < pq[2] /\ pq[1] \div 8 = pq[2] \div 8}

RaceScripts ==
    {[t \in Callers |->
         IF t = 1 THEN <<Call("digitalWrite", d, pq[1], "-", v, FALSE)>>
                  ELSE <<Call("digitalWrite", d, pq[2], "-", w, FALSE)>>] :
        d \in ChipSelects, v \in {LOW, HIGH}, w \in {LOW, HIGH},
        pq \in RacePins}

InitRace == InitWith(SeedFiles, RaceScripts)

\* Caller t can take a step: the bus is free of the other caller's
\* transaction.
BusFree(t) == \A u \in Callers \ {t} : ~InFrame(u)

NextRace ==
    \E t \in Callers :
        \/ BusFree(t) /\ XRA1405_digitalWrite(t)
        \/ BusFree(t) /\ digitalWrite_Modify(t)
        \/ BusFree(t) /\ digitalWrite_Return(t)
        \/ BusFree(t) /\ SelectDevice(t)
        \/ BusFree(t) /\ BeginTransaction(t)
        \/ BusFree(t) /\ TransferCommand(t)
        \/ BusFree(t) /\ SPI_Read_TransferData(t)
        \/ BusFree(t) /\ SPI_Write_TransferData(t)
        \/ BusFree(t) /\ EndTransaction(t)
        \/ BusFree(t) /\ DeselectDevice(t)

SpecRace == InitRace /\ [][NextRace]_vars

\* Both callers have returned from their XRA1405_digitalWrite.
BothCompleted ==
    \A t \in Callers : Completed(t, "digitalWrite") /\ script[t] = <<>>

\* ------------------------------------------------------------------------
\* C12. Lost update under unserialized access: two callers whose
\* transactions interleave, each transaction atomic, write two pins of one
\* output-control register. When both have returned the register is the
\* byte of one of the two writes, each pin's bit is the level written to it
\* or its initial value, at least one of the two updates is there, and no
\* other bit has changed; an execution where one of the two updates is
\* missing is reachable (C12_Witness).
\* ------------------------------------------------------------------------
C12_LostUpdate ==
    BothCompleted =>
        LET d == call[1].cs
            a == RegisterOfPin(OCR1, call[1].pin)
            p == BitOfPin(call[1].pin)
            q == BitOfPin(call[2].pin)
        IN  /\ \A t \in Callers :
                   /\ Len(txlog[t]) = 2
                   /\ txlog[t][2].dataByte =
                          newOutputControlValue(call[t].value,
                              txlog[t][1].dataByte, BitOfPin(call[t].pin))
            /\ regs[d][a] \in {txlog[1][2].dataByte, txlog[2][2].dataByte}
            /\ Bit(regs[d][a], p) \in {call[1].value, Bit(regs0[d][a], p)}
            /\ Bit(regs[d][a], q) \in {call[2].value, Bit(regs0[d][a], q)}
            /\ \/ Bit(regs[d][a], p) = call[1].value
               \/ Bit(regs[d][a], q) = call[2].value
            /\ \A i \in 0 .. 7 :
                   i \notin {p, q} => Bit(regs[d][a], i) = Bit(regs0[d][a], i)

\* XRA1405_digitalWrite(cs, 0, HIGH) and XRA1405_digitalWrite(cs, 1, HIGH)
\* on a register that held 0x00 have both returned, and the register holds
\* 0x01 or 0x02: one of the two updates is lost.
C12_Witness ==
    /\ BothCompleted
    /\ call[1].pin = 0 /\ call[1].value = HIGH
    /\ call[2].pin = 1 /\ call[2].value = HIGH
    /\ regs0[call[1].cs][OCR1 \div 2] = 0
    /\ regs[call[1].cs][OCR1 \div 2] \in {1, 2}

\* ------------------------------------------------------------------------
\* C13. XRA1405_setInterrupt sets the interrupt-enable bit of the pin to 1
\* for every interrupt type, INTERRUPT_DISABLE included, and no driver
\* operation clears an interrupt-enable bit. Its transactions are, in
\* order: interrupt-enable read, interrupt-enable write, rising-edge read,
\* rising-edge write, falling-edge read, falling-edge write (followed, for
\* INTERRUPT_DISABLE only, by the two writes of C16), so the
\* interrupt-enable register is written before any edge register is
\* addressed.
\* ------------------------------------------------------------------------
C13_EnableThenEdges ==
    \A t \in Callers :
        /\ call[t].op = "setInterrupt" =>
               LET d == call[t].cs
                   a == RegisterOfPin(IER1, call[t].pin)
                   n == BitOfPin(call[t].pin)
                   last == IF call[t].mode = "INTERRUPT_DISABLE" THEN 8 ELSE 6
               IN  /\ Len(txlog[t]) <= last
                   /\ \A i \in 1 .. Len(txlog[t]) :
                          /\ txlog[t][i].fn = SetInterruptOrder[i][1]
                          /\ FamilyOf(txlog[t][i]) = SetInterruptOrder[i][2]
                   /\ \A i \in {1, 2} \cap (1 .. Len(txlog[t])) :
                          Target(txlog[t][i]) = <<d, a>>
                   /\ Len(txlog[t]) >= 2 =>
                          /\ Bit(txlog[t][2].dataByte, n) = 1
                          /\ Bit(regs[d][a], n) = 1
                   /\ (InTransfer(t) /\ FamilyOf(xfer[t]) \in {REIR1, FEIR1}) =>
                          Len(txlog[t]) >= 2
                   /\ pc[t] = "idle" => Len(txlog[t]) = last
        /\ \A d \in ChipSelects, a \in {IER1 \div 2, IER2 \div 2} :
           \A i \in 0 .. 7 :
               Bit(entry[t][d][a], i) = 1 => Bit(regs[d][a], i) = 1

\* XRA1405_setInterrupt(cs, pin, INTERRUPT_DISABLE) has returned and has
\* set an interrupt-enable bit that was 0.
C13_Witness ==
    \E t \in Callers :
        /\ Completed(t, "setInterrupt")
        /\ call[t].mode = "INTERRUPT_DISABLE"
        /\ Len(txlog[t]) = 8
        /\ Bit(entry[t][call[t].cs][RegisterOfPin(IER1, call[t].pin)],
               BitOfPin(call[t].pin)) = 0
        /\ Bit(regs[call[t].cs][RegisterOfPin(IER1, call[t].pin)],
               BitOfPin(call[t].pin)) = 1

\* ------------------------------------------------------------------------
\* C14. Edge mode is a function of the last call only: after
\* XRA1405_setInterrupt(cs, pin, type), for every pin 0-15 and whatever
\* the edge bits were before, the pin's rising-edge bit is 1 exactly for
\* INTERRUPT_RISING and INTERRUPT_BOTH and its falling-edge bit is 1
\* exactly for INTERRUPT_FALLING and INTERRUPT_BOTH, and the edge bits of
\* every other pin are as they were, so that after a sequence of calls the
\* pair of edge bits of a pin encodes the type of the last call naming it.
\* Stated as the claim states it; the code violates it for pins 8-15,
\* whose calls configure the edge bits of pin - 8 instead (see C1).
\* ------------------------------------------------------------------------
C14_EdgeModeOfLastCall ==
    \A t \in Callers :
        Completed(t, "setInterrupt") =>
            LET d == call[t].cs
                rising == IF enableRising(call[t].mode) THEN 1 ELSE 0
                falling == IF enableFalling(call[t].mode) THEN 1 ELSE 0
            IN  \A q \in Pins :
                    LET r == RegisterOfPin(REIR1, q)
                        f == RegisterOfPin(FEIR1, q)
                    IN  IF q = call[t].pin
                        THEN /\ Bit(regs[d][r], BitOfPin(q)) = rising
                             /\ Bit(regs[d][f], BitOfPin(q)) = falling
                        ELSE /\ Bit(regs[d][r], BitOfPin(q)) =
                                    Bit(entry[t][d][r], BitOfPin(q))
                             /\ Bit(regs[d][f], BitOfPin(q)) =
                                    Bit(entry[t][d][f], BitOfPin(q))

\* ------------------------------------------------------------------------
\* Specification: XRA1405_begin, XRA1405_pinMode(cs, p, INPUT_PULLUP), then
\* one call of any operation on the same device that names p or the pin
\* with the same bit index in the other bank
\* ------------------------------------------------------------------------

DefaultBegin == Call("begin", 0, 0, "-", XRA1405_SPI_CLOCK, FALSE)

\* The calls on device d that name pin p.
CallsOn(d, p) == {c \in PinCalls : c.cs = d /\ c.pin = p}

PullUpScripts ==
    {[t \in Callers |->
         IF t = 1
         THEN <<DefaultBegin,
                Call("pinMode", dp[1], dp[2], "INPUT_PULLUP", 0, FALSE),
                dp[3]>>
         ELSE <<>>] :
        dp \in {x \in ChipSelects \X Pins \X DeviceCalls :
                   \/ x[3] \in CallsOn(x[1], x[2])
                   \/ x[3] \in CallsOn(x[1], (x[2] + 8) % 16)
                   \/ x[3] = Call("clearInterrupts", x[1], 0, "-", 0, FALSE)}}

InitPullUp == InitWith(SeedFiles, PullUpScripts)

SpecPullUp == InitPullUp /\ [][Next]_vars

\* ------------------------------------------------------------------------
\* C15. Pull-up is never auto-disabled: over a sequence of calls, a
\* pull-up bit that is 1 when a call is entered is 1 throughout the call
\* and after it, unless the call is XRA1405_setPullUp(cs, pin, false) and
\* the bit is the bit of that pin; XRA1405_pinMode clears no pull-up bit
\* with any mode. In particular the bit set by
\* XRA1405_pinMode(cs, p, INPUT_PULLUP) is still 1 after a following
\* XRA1405_pinMode(cs, p, INPUT) or XRA1405_pinMode(cs, p, OUTPUT).
\* ------------------------------------------------------------------------
C15_PullUpNeverAutoDisabled ==
    \A t \in {u \in Callers : call[u].op # "none"} :
        \A d \in ChipSelects, a \in {PUR1 \div 2, PUR2 \div 2}, i \in 0 .. 7 :
            (Bit(entry[t][d][a], i) = 1 /\ Bit(regs[d][a], i) = 0) =>
                /\ call[t].op = "setPullUp"
                /\ ~call[t].enabled
                /\ call[t].cs = d
                /\ RegisterOfPin(PUR1, call[t].pin) = a
                /\ BitOfPin(call[t].pin) = i

\* XRA1405_pinMode(cs, p, INPUT_PULLUP) has set a pull-up bit that was 0,
\* and XRA1405_pinMode(cs, p, INPUT) or XRA1405_pinMode(cs, p, OUTPUT) has
\* returned after it with the bit still 1.
C15_Witness ==
    \E t \in Callers :
        /\ Completed(t, "pinMode")
        /\ script[t] = <<>>
        /\ Len(plan[t]) = 3
        /\ call[t].mode \in {"INPUT", "OUTPUT"}
        /\ call[t].pin = plan[t][2].pin
        /\ \E a \in {PUR1 \div 2, PUR2 \div 2} :
               /\ Bit(regs0[call[t].cs][a], BitOfPin(call[t].pin)) = 0
               /\ Bit(entry[t][call[t].cs][a], BitOfPin(call[t].pin)) = 1
               /\ Bit(regs[call[t].cs][a], BitOfPin(call[t].pin)) = 1

\* ------------------------------------------------------------------------
\* C16. The re-clear is redundant: for INTERRUPT_DISABLE
\* configureEdgeInterrupt issues exactly four writes, to the rising-edge,
\* falling-edge, rising-edge and falling-edge register in that order, the
\* third and fourth with the command and byte of the first and second; from
\* the second write on the register file stays what the writes up to that
\* one made of it. For the other three types it issues exactly two writes
\* to edge registers, rising then falling.
\* ------------------------------------------------------------------------
C16_ReclearRedundant ==
    \A t \in Callers :
        call[t].op = "setInterrupt" =>
            LET w == EdgeWrites(t)
                d == call[t].cs
                disable == call[t].mode = "INTERRUPT_DISABLE"
            IN  /\ Len(w) <= IF disable THEN 4 ELSE 2
                /\ pc[t] = "idle" => Len(w) = IF disable THEN 4 ELSE 2
                /\ \A i \in 1 .. Len(w) :
                       FamilyOf(w[i]) = IF i % 2 = 1 THEN REIR1 ELSE FEIR1
                /\ \A i \in 3 .. Len(w) : w[i] = w[i - 2]
                /\ Len(w) >= 2 =>
                       \A a \in RegAddrs :
                           regs[d][a] =
                               IF a = Target(w[2])[2] THEN w[2].dataByte
                               ELSE IF a = Target(w[1])[2] THEN w[1].dataByte
                               ELSE IF a = Target(txlog[t][2])[2]
                                    THEN txlog[t][2].dataByte
                               ELSE entry[t][d][a]

\* XRA1405_setInterrupt(cs, pin, INTERRUPT_DISABLE) has returned after four
\* edge writes that cleared an edge bit that was 1.
C16_Witness ==
    \E t \in Callers :
        /\ Completed(t, "setInterrupt")
        /\ call[t].mode = "INTERRUPT_DISABLE"
        /\ Len(EdgeWrites(t)) = 4
        /\ regs[call[t].cs] # entry[t][call[t].cs]
        /\ EdgeWrites(t)[1].dataByte # EdgeWrites(t)[2].dataByte

\* ------------------------------------------------------------------------
\* Specification: XRA1405_begin, then XRA1405_digitalRead of any pin, with
\* all pins configured as inputs and any byte as the levels of a bank
\* ------------------------------------------------------------------------

ReadFiles ==
    {[d \in ChipSelects |->
         [a \in RegAddrs |->
             CASE a \in {GSR1 \div 2, GSR2 \div 2} -> v
               [] a \in {GCR1 \div 2, GCR2 \div 2} -> 255
               [] OTHER -> 0]] : v \in Bytes}

ReadScripts ==
    {[t \in Callers |->
         IF t = 1
         THEN <<DefaultBegin, Call("digitalRead", d, p, "-", 0, FALSE)>>
         ELSE <<>>] :
        d \in ChipSelects, p \in Pins}

InitRead == InitWith(ReadFiles, ReadScripts)

NextRead ==
    \E t \in Callers :
        \/ XRA1405_begin(t)
        \/ XRA1405_digitalRead(t)
        \/ digitalRead_Return(t)
        \/ SelectDevice(t)
        \/ BeginTransaction(t)
        \/ TransferCommand(t)
        \/ SPI_Read_TransferData(t)
        \/ EndTransaction(t)
        \/ DeselectDevice(t)

SpecRead == InitRead /\ [][NextRead]_vars

\* ------------------------------------------------------------------------
\* C17. XRA1405_digitalRead issues exactly one transaction, a read of the
\* state register of the pin's bank, and no write; for every pin 0-15 and
\* every byte V the read returns, the result is (V >> (pin mod 8)) & 1,
\* which is 0 or 1.
\* ------------------------------------------------------------------------
C17_DigitalReadBit ==
    \A t \in Callers :
        call[t].op = "digitalRead" =>
            /\ xfer[t].fn # "SPI_Write"
            /\ Len(txlog[t]) <= 1
            /\ \A i \in 1 .. Len(txlog[t]) :
                   /\ txlog[t][i].fn = "SPI_Read"
                   /\ Target(txlog[t][i]) =
                          <<call[t].cs, RegisterOfPin(GSR1, call[t].pin)>>
            /\ regs = entry[t]
            /\ pc[t] = "idle" =>
                   /\ Len(txlog[t]) = 1
                   /\ result[t] =
                          (txlog[t][1].dataByte \div 2 ^ (call[t].pin % 8)) % 2
                   /\ result[t] \in {0, 1}

\* XRA1405_digitalRead of a pin other than the lowest of its bank has
\* returned 1 from a byte whose lowest bit is 0.
C17_Witness ==
    \E t \in Callers :
        /\ Completed(t, "digitalRead")
        /\ call[t].pin % 8 # 0
        /\ txlog[t][1].dataByte % 2 = 0
        /\ result[t] = 1

\* ------------------------------------------------------------------------
\* Specification: XRA1405_begin, then up to MaxWrites calls of
\* XRA1405_digitalWrite on one device, each naming one of two pins that are
\* neighbours in a register or share a bit index across the banks
\* ------------------------------------------------------------------------

MaxWrites == 2

WritePins ==
    {pq \in Pins \X Pins : pq[2] = pq[1] + 1 \/ pq[2] = pq[1] + 8}

WriteSequences(d, pq) ==
    UNION {[1 .. k -> {Call("digitalWrite", d, p, "-", v, FALSE) :
                           p \in {pq[1], pq[2]}, v \in {LOW, HIGH}}] :
              k \in 1 .. MaxWrites}

WriteScripts ==
    {[t \in Callers |-> IF t = 1 THEN <<DefaultBegin>> \o x[3] ELSE <<>>] :
        x \in UNION {{<<d, pq, s>> : s \in WriteSequences(d, pq)} :
                        d \in ChipSelects, pq \in WritePins}}

InitWrites == InitWith(SeedFiles, WriteScripts)

NextWrites ==
    \E t \in Callers :
        \/ XRA1405_begin(t)
        \/ DigitalWrite(t)
        \/ Transport(t)

SpecWrites == InitWrites /\ [][NextWrites]_vars

\* ------------------------------------------------------------------------
\* C18. Last write wins under serialized access: after a sequence of
\* XRA1405_digitalWrite calls on a device, the output-control bit of every
\* pin is the level of the last call that named the pin, or its initial
\* value when no call named it; and throughout a call the output-control
\* bits of the pins the call does not name are as they were at its entry.
\* ------------------------------------------------------------------------
C18_LastWriteWins ==
    \A t \in {u \in Callers : plan[u] # <<>>} :
        \A d \in ChipSelects, pin \in Pins :
            LET a == RegisterOfPin(OCR1, pin)
                n == BitOfPin(pin)
                named == WritesNaming(t, d, pin)
            IN  /\ pc[t] = "idle" =>
                       Bit(regs[d][a], n) =
                           IF named = {} THEN Bit(regs0[d][a], n)
                           ELSE Made(t)[Latest(named)].value
                /\ (call[t].op = "digitalWrite"
                        /\ <<call[t].cs, call[t].pin>> # <<d, pin>>) =>
                       Bit(regs[d][a], n) = Bit(entry[t][d][a], n)

\* Two calls naming the same pin have returned, the first with HIGH, the
\* second with LOW, and the pin's bit, 1 before the calls, is 0.
C18_Witness ==
    \E t \in Callers :
        /\ pc[t] = "idle"
        /\ Len(Made(t)) = 3
        /\ Made(t)[2].pin = Made(t)[3].pin
        /\ Made(t)[2].value = HIGH
        /\ Made(t)[3].value = LOW
        /\ Bit(regs0[Made(t)[3].cs][RegisterOfPin(OCR1, Made(t)[3].pin)],
               BitOfPin(Made(t)[3].pin)) = 1
        /\ Bit(regs[Made(t)[3].cs][RegisterOfPin(OCR1, Made(t)[3].pin)],
               BitOfPin(Made(t)[3].pin)) = 0

\* ------------------------------------------------------------------------
\* Specification: two devices with equal register files. Caller 1 runs
\* XRA1405_begin and one operation with a pin number beyond 15 on one
\* device; after it has returned, caller 2 runs the same operation with
\* pin 8 + (pin mod 8) on the other device.
\* ------------------------------------------------------------------------

\* Values of a uint8_t pin beyond 15.
OutOfRangePins == (16 .. 31) \cup {64, 127, 128, 200, 255}

TwinFiles ==
    {[d \in ChipSelects |-> file[c]] : file \in SeedFiles, c \in ChipSelects}

OtherDevice(d) == CHOOSE e \in ChipSelects : e # d

RangeScripts ==
    {[t \in Callers |->
         IF t = 1
         THEN <<DefaultBegin, [x[1] EXCEPT !.pin = x[2]]>>
         ELSE <<[x[1] EXCEPT !.pin = 8 + (x[2] % 8),
                             !.cs = OtherDevice(x[1].cs)]>>] :
        x \in {c \in PinCalls : c.pin = 8} \X OutOfRangePins}

InitRange == InitWith(TwinFiles, RangeScripts)

\* Caller t can take a step: caller 1 always, caller 2 once caller 1 has
\* made its calls and has returned.
InTurn(t) == t = 2 => (script[1] = <<>> /\ pc[1] = "idle")

NextRange ==
    \E t \in Callers :
        \/ InTurn(t) /\ XRA1405_begin(t)
        \/ InTurn(t) /\ XRA1405_pinMode(t)
        \/ InTurn(t) /\ pinMode_Modify(t)
        \/ InTurn(t) /\ pinMode_PullUp(t)
        \/ InTurn(t) /\ pinMode_PullUpWrite(t)
        \/ InTurn(t) /\ pinMode_Return(t)
        \/ InTurn(t) /\ XRA1405_digitalWrite(t)
        \/ InTurn(t) /\ digitalWrite_Modify(t)
        \/ InTurn(t) /\ digitalWrite_Return(t)
        \/ InTurn(t) /\ XRA1405_digitalRead(t)
        \/ InTurn(t) /\ digitalRead_Return(t)
        \/ InTurn(t) /\ XRA1405_setPullUp(t)
        \/ InTurn(t) /\ setPullUp_Modify(t)
        \/ InTurn(t) /\ setPullUp_Return(t)
        \/ InTurn(t) /\ XRA1405_setInterrupt(t)
        \/ InTurn(t) /\ setInterrupt_Enable(t)
        \/ InTurn(t) /\ configureEdgeInterrupt(t)
        \/ InTurn(t) /\ configureEdge_Rising(t)
        \/ InTurn(t) /\ configureEdge_ReadFalling(t)
        \/ InTurn(t) /\ configureEdge_Falling(t)
        \/ InTurn(t) /\ configureEdge_Disable(t)
        \/ InTurn(t) /\ configureEdge_DisableFalling(t)
        \/ InTurn(t) /\ configureEdge_Return(t)
        \/ InTurn(t) /\ SelectDevice(t)
        \/ InTurn(t) /\ BeginTransaction(t)
        \/ InTurn(t) /\ TransferCommand(t)
        \/ InTurn(t) /\ SPI_Read_TransferData(t)
        \/ InTurn(t) /\ SPI_Write_TransferData(t)
        \/ InTurn(t) /\ EndTransaction(t)
        \/ InTurn(t) /\ DeselectDevice(t)

SpecRange == InitRange /\ [][NextRange]_vars

\* Both callers have made all their calls and have returned.
BothReturned == \A t \in Callers : script[t] = <<>> /\ pc[t] = "idle"

\* ------------------------------------------------------------------------
\* C19. Unchecked pin range: an operation called with a pin number in
\* 16-255 returns normally, and it issues the transactions, with the same
\* commands and the same bytes, has the same effect on the register file
\* and returns the same result as the same operation called with the
\* high-bank pin 8 + (pin mod 8).
\* ------------------------------------------------------------------------
C19_UncheckedPinRange ==
    BothReturned =>
        /\ call[1].pin > 15
        /\ call[2].pin = 8 + (call[1].pin % 8)
        /\ call[2].op = call[1].op
        /\ Len(txlog[1]) = Len(txlog[2])
        /\ \A i \in 1 .. Len(txlog[1]) :
               /\ txlog[1][i].fn = txlog[2][i].fn
               /\ txlog[1][i].commandByte = txlog[2][i].commandByte
               /\ txlog[1][i].dataByte = txlog[2][i].dataByte
               /\ txlog[1][i].cs = call[1].cs
               /\ txlog[2][i].cs = call[2].cs
        /\ regs[call[1].cs] = regs[call[2].cs]
        /\ call[1].op = "digitalRead" => result[1] = result[2]

\* XRA1405_digitalWrite with pin 255 has changed the output-control bit of
\* pin 15, and the same call with pin 15 has returned on the other device.
C19_Witness ==
    /\ BothReturned
    /\ call[1].op = "digitalWrite"
    /\ call[1].pin = 255
    /\ regs[call[1].cs][OCR2 \div 2] # regs0[call[1].cs][OCR2 \div 2]
    /\ Bit(regs[call[1].cs][OCR2 \div 2], 7) = call[1].value

\* ------------------------------------------------------------------------
\* C20. Device isolation on a shared bus: every SPI_Read / SPI_Write of an
\* operation called with chipSelectPin d drives select line d low and no
\* other select line; over a sequence of operations addressed to one
\* device the select line of the other device stays high, the other device
\* sees no frame, and each of its registers keeps its initial value.
\* ------------------------------------------------------------------------
C20_DeviceIsolation ==
    \A t \in {u \in Callers : plan[u] # <<>>} :
        LET d == plan[t][Len(plan[t])].cs
        IN  /\ \A i \in 2 .. Len(plan[t]) : plan[t][i].cs = d
            /\ InTransfer(t) => xfer[t].cs = d
            /\ InFrame(t) => csLine[d] = LOW
            /\ \A i \in 1 .. Len(txlog[t]) : txlog[t][i].cs = d
            /\ \A e \in ChipSelects \ {d} :
                   /\ csLine[e] = HIGH
                   /\ dev[e].phase = "idle"
                   /\ regs[e] = regs0[e]

\* Two operations on one device have returned and have changed a register
\* of it; the other device holds its initial register file.
C20_Witness ==
    \E t \in Callers :
        /\ pc[t] = "idle"
        /\ script[t] = <<>>
        /\ Len(plan[t]) = 3
        /\ regs[call[t].cs] # regs0[call[t].cs]
        /\ regs[OtherDevice(call[t].cs)] = regs0[OtherDevice(call[t].cs)]

====
